---- MODULE Spec2Model ----
(***************************************************************************)
(* Flash-sale purchase pipeline: requestPurchase / verifyPurchase request  *)
(* handlers (purchaseFlowController) and the BullMQ fulfillment worker     *)
(* (services/purchaseQueue.ts), over the Mongo collections FlashSale,      *)
(* Product, OTP, Customer and Purchase.                                    *)
(*                                                                         *)
(* Every action is one store round trip of a handler (one `await`), so     *)
(* that concurrent handlers interleave between store operations exactly    *)
(* as they do in the Node process(es).  Reads of data that no modelled     *)
(* operation changes (Product.findById, FlashSale.findById existence) are  *)
(* folded into the neighbouring step.                                      *)
(***************************************************************************)
EXTENDS Integers, Sequences, FiniteSets, TLC

\* ---------------------------------------------------------------- bounds
NCalls == 4            \* request handlers (HTTP calls) per behaviour
MaxTime == 3           \* the clock runs 0..MaxTime
MaxSaleStock == 2      \* initial FlashSale.stock is drawn from 0..MaxSaleStock
MaxProductStock == 2   \* initial Product.stock is drawn from 0..MaxProductStock
MaxJobs == 2           \* jobs ever added to the purchase-processing queue
MaxFaults == 1         \* store operations that throw, per behaviour
MaxRedeliver == 1      \* redeliveries of a finished job (at-least-once queue)

\* ------------------------------------------------------ program constants
Attempts == 3          \* defaultJobOptions.attempts
Concurrency == 5       \* Worker option concurrency
OtpTtl == 2            \* 10 * 60 * 1000 ms, in clock ticks of five minutes

\* ------------------------------------------------------------ input sets
RawEmails == {"A@x.io", "b@x.io"}
Products == {"p1", "p2"}
Sales == {"s1", "s2"}
Codes == {"111111"}

\* request bodies the validation refuses, and a well-formed code that was
\* never issued
BadEmails == {"nomail"}
BadProducts == {"zz"}
BadCodes == {"12ab"}
WrongCodes == {"222222"}

\* String.prototype.toLowerCase on the addresses above
toLowerCase(e) == IF e = "A@x.io" THEN "a@x.io" ELSE e


VARIABLES
    now,           \* wall clock (new Date())
    saleProduct,   \* FlashSale.productId, per sale
    saleStock,     \* FlashSale.stock, per sale
    initSaleStock, \* FlashSale.stock when the behaviour starts (history)
    productStock,  \* Product.stock, per product
    initProductStock, \* Product.stock when the behaviour starts (history)
    otps,          \* OTP collection: records [id, email, code, expiresAt]
    nextOtpId,     \* next OTP _id
    customers,     \* Customer collection: set of emails
    purchases,     \* Purchase collection: sequence, _id = position
    jobs,          \* purchase-processing queue: sequence, job id = position
    calls,         \* request handlers in flight or returned
    mails,         \* e-mails handed to the transporter
    faults,        \* store operations that have thrown so far
    redelivered    \* redeliveries so far

vars == <<now, saleProduct, saleStock, initSaleStock, productStock,
          initProductStock, otps, nextOtpId, customers, purchases, jobs,
          calls, mails, faults, redelivered>>

\* flash sale windows (FlashSale.startTime / endTime), startTime < endTime;
\* createFlashSale refuses two overlapping windows for one product, so s2
\* opens after s1 has closed when both sell the same product
startTime(s) == IF s = "s2" /\ saleProduct["s2"] = saleProduct["s1"] THEN 2 ELSE 0
endTime(s) == startTime(s) + 1

CallIds == 1..NCalls

NoCall == [pc |-> "idle", op |-> "", email |-> "", product |-> "", otp |-> "",
           otpId |-> 0, sale |-> "", updStock |-> 0, purchaseId |-> 0,
           result |-> "", cause |-> "", recentPurchases |-> <<>>,
           hasPendingOTP |-> FALSE]

Init ==
    /\ now = 0
    /\ saleProduct \in {f \in [Sales -> Products] : f["s1"] = "p1"}
    /\ saleStock \in [Sales -> 0..MaxSaleStock]
    /\ initSaleStock = saleStock
    /\ productStock \in [Products -> 0..MaxProductStock]
    /\ initProductStock = productStock
    /\ otps = {}
    /\ nextOtpId = 1
    /\ customers = {}
    /\ purchases = <<>>
    /\ jobs = <<>>
    /\ calls = [c \in CallIds |-> NoCall]
    /\ mails = {}
    /\ faults = 0
    /\ redelivered = 0

\* ------------------------------------------------------------- helpers

\* /^\S+@\S+\.\S+$/ and Types.ObjectId.isValid and /^\d{6}$/ on the inputs
emailRegex(e) == e \in RawEmails
isValidObjectId(p) == p \in Products
otpFormat(o) == o \in Codes \cup WrongCodes

\* FlashSale.findOne({productId, startTime <= now, endTime >= now, stock > 0})
activeFlashSales(p) ==
    {s \in Sales : /\ saleProduct[s] = p
                   /\ startTime(s) <= now
                   /\ endTime(s) >= now
                   /\ saleStock[s] > 0}

PurchaseIds == 1..Len(purchases)

\* Purchase.findOne({userEmail, saleId})
existingPurchase(e, s) ==
    \E i \in PurchaseIds : purchases[i].userEmail = e /\ purchases[i].saleId = s

\* the handler writes its response
Returned(c, res, why) ==
    [calls[c] EXCEPT !.pc = "done", !.result = res, !.cause = why,
                     !.updStock = 0]

Started(c) == \A d \in CallIds : d < c => calls[d].pc # "idle"

\* =================================================== requestPurchase

\* input validation, Product.findById
RequestPurchase(c, e, p) ==
    /\ calls[c].pc = "idle" /\ Started(c)
    /\ LET in == [NoCall EXCEPT !.op = "request", !.email = e, !.product = p]
       IN calls' = [calls EXCEPT ![c] =
            IF ~emailRegex(e) \/ ~isValidObjectId(p)
            THEN [in EXCEPT !.pc = "done", !.result = "InvalidInput"]
            ELSE [in EXCEPT !.pc = "r_sale"]]
    /\ UNCHANGED <<now, saleProduct, saleStock, initSaleStock, productStock,
                   initProductStock, otps, nextOtpId, customers, purchases,
                   jobs, mails, faults, redelivered>>

\* FlashSale.findOne (active sale of the product)
ReqFindSale(c) ==
    /\ calls[c].pc = "r_sale"
    /\ IF activeFlashSales(calls[c].product) = {}
       THEN calls' = [calls EXCEPT ![c] = Returned(c, "NoActiveSale", "")]
       ELSE \E s \in activeFlashSales(calls[c].product) :
              calls' = [calls EXCEPT ![c].pc = "r_exist", ![c].sale = s]
    /\ UNCHANGED <<now, saleProduct, saleStock, initSaleStock, productStock,
                   initProductStock, otps, nextOtpId, customers, purchases,
                   jobs, mails, faults, redelivered>>

\* Purchase.findOne (existing purchase of this email for the sale)
ReqExisting(c) ==
    /\ calls[c].pc = "r_exist"
    /\ calls' = [calls EXCEPT ![c] =
         IF existingPurchase(toLowerCase(calls[c].email), calls[c].sale)
         THEN Returned(c, "DuplicateRequest", "")
         ELSE [calls[c] EXCEPT !.pc = "r_cust"]]
    /\ UNCHANGED <<now, saleProduct, saleStock, initSaleStock, productStock,
                   initProductStock, otps, nextOtpId, customers, purchases,
                   jobs, mails, faults, redelivered>>

\* Customer.findOneAndUpdate(..., {upsert: true})
ReqCustomer(c) ==
    /\ calls[c].pc = "r_cust"
    /\ customers' = customers \cup {toLowerCase(calls[c].email)}
    /\ calls' = [calls EXCEPT ![c].pc = "r_delmany"]
    /\ UNCHANGED <<now, saleProduct, saleStock, initSaleStock, productStock,
                   initProductStock, otps, nextOtpId, purchases, jobs, mails,
                   faults, redelivered>>

\* OTP.deleteMany({email})
ReqDeleteOtps(c) ==
    /\ calls[c].pc = "r_delmany"
    /\ otps' = {o \in otps : o.email # toLowerCase(calls[c].email)}
    /\ calls' = [calls EXCEPT ![c].pc = "r_save"]
    /\ UNCHANGED <<now, saleProduct, saleStock, initSaleStock, productStock,
                   initProductStock, nextOtpId, customers, purchases, jobs,
                   mails, faults, redelivered>>

\* new OTP({email, code, expiresAt: now + 10 min}).save()
ReqSaveOtp(c) ==
    /\ calls[c].pc = "r_save"
    /\ \E code \in Codes :
         /\ otps' = otps \cup {[id |-> nextOtpId,
                                email |-> toLowerCase(calls[c].email),
                                code |-> code,
                                expiresAt |-> now + OtpTtl]}
         /\ calls' = [calls EXCEPT ![c].pc = "r_send", ![c].otpId = nextOtpId,
                                   ![c].otp = code]
    /\ nextOtpId' = nextOtpId + 1
    /\ UNCHANGED <<now, saleProduct, saleStock, initSaleStock, productStock,
                   initProductStock, customers, purchases, jobs, mails, faults,
                   redelivered>>

\* emailService.sendOTP resolves
ReqSendOk(c) ==
    /\ calls[c].pc = "r_send"
    /\ mails' = mails \cup {<<"otp", calls[c].email, calls[c].otp>>}
    /\ calls' = [calls EXCEPT ![c] = Returned(c, "Success", "")]
    /\ UNCHANGED <<now, saleProduct, saleStock, initSaleStock, productStock,
                   initProductStock, otps, nextOtpId, customers, purchases,
                   jobs, faults, redelivered>>

\* emailService.sendOTP rejects
ReqSendFail(c) ==
    /\ calls[c].pc = "r_send"
    /\ calls' = [calls EXCEPT ![c].pc = "r_cleanup"]
    /\ UNCHANGED <<now, saleProduct, saleStock, initSaleStock, productStock,
                   initProductStock, otps, nextOtpId, customers, purchases,
                   jobs, mails, faults, redelivered>>

\* OTP.deleteOne({_id: otp._id}): the collection after it
MutDeleteOne(id) == otps
deleteOne(id) == {o \in otps : o.id # id}

\* the cleanup of the code whose mail failed, 500
ReqCleanup(c) ==
    /\ calls[c].pc = "r_cleanup"
    /\ otps' = deleteOne(calls[c].otpId)
    /\ calls' = [calls EXCEPT ![c] = Returned(c, "DeliveryFailed", "")]
    /\ UNCHANGED <<now, saleProduct, saleStock, initSaleStock, productStock,
                   initProductStock, nextOtpId, customers, purchases, jobs,
                   mails, faults, redelivered>>

\* =================================================== verifyPurchase

\* OTP.findOne({email: email.toLowerCase(), otp}): the matching documents
MutFindOtp(e, o) == {r \in otps : r.email = e /\ r.code = o}
findOtp(e, o) == {r \in otps : r.email = toLowerCase(e) /\ r.code = o}

\* input validation, OTP.findOne({email, code}), expiry test, Product.findById
VerifyPurchase(c, e, p, o) ==
    /\ calls[c].pc = "idle" /\ Started(c)
    /\ LET in == [NoCall EXCEPT !.op = "verify", !.email = e, !.product = p,
                                !.otp = o]
           found == findOtp(e, o)
       IN IF ~emailRegex(e) \/ ~isValidObjectId(p) \/ ~otpFormat(o)
          THEN calls' = [calls EXCEPT ![c] =
                   [in EXCEPT !.pc = "done", !.result = "InvalidInput"]]
          ELSE IF found = {}
          THEN calls' = [calls EXCEPT ![c] =
                   [in EXCEPT !.pc = "done", !.result = "InvalidOtp",
                              !.cause = "nocode"]]
          ELSE \E r \in found :
                 calls' = [calls EXCEPT ![c] =
                   IF r.expiresAt < now
                   THEN [in EXCEPT !.pc = "v_expired", !.otpId = r.id]
                   ELSE [in EXCEPT !.pc = "v_sale", !.otpId = r.id]]
    /\ UNCHANGED <<now, saleProduct, saleStock, initSaleStock, productStock,
                   initProductStock, otps, nextOtpId, customers, purchases,
                   jobs, mails, faults, redelivered>>

\* OTP.deleteOne of the expired code, 400
VerDeleteExpired(c) ==
    /\ calls[c].pc = "v_expired"
    /\ otps' = {o \in otps : o.id # calls[c].otpId}
    /\ calls' = [calls EXCEPT ![c] = Returned(c, "InvalidOtp", "expired")]
    /\ UNCHANGED <<now, saleProduct, saleStock, initSaleStock, productStock,
                   initProductStock, nextOtpId, customers, purchases, jobs,
                   mails, faults, redelivered>>

\* FlashSale.findOne (active sale of the product)
MutVerFindSale(c) ==
    /\ calls[c].pc = "v_sale"
    /\ otps' = {o \in otps : o.id # calls[c].otpId}
    /\ IF activeFlashSales(calls[c].product) = {}
       THEN calls' = [calls EXCEPT ![c] = Returned(c, "SaleNotActive", "")]
       ELSE \E s \in activeFlashSales(calls[c].product) :
              calls' = [calls EXCEPT ![c].pc = "v_exist", ![c].sale = s]
    /\ UNCHANGED <<now, saleProduct, saleStock, initSaleStock, productStock,
                   initProductStock, nextOtpId, customers, purchases,
                   jobs, mails, faults, redelivered>>
VerFindSale(c) ==
    /\ calls[c].pc = "v_sale"
    /\ IF activeFlashSales(calls[c].product) = {}
       THEN calls' = [calls EXCEPT ![c] = Returned(c, "SaleNotActive", "")]
       ELSE \E s \in activeFlashSales(calls[c].product) :
              calls' = [calls EXCEPT ![c].pc = "v_exist", ![c].sale = s]
    /\ UNCHANGED <<now, saleProduct, saleStock, initSaleStock, productStock,
                   initProductStock, otps, nextOtpId, customers, purchases,
                   jobs, mails, faults, redelivered>>

\* Purchase.findOne (existing purchase of this email for the sale)
VerExisting(c) ==
    /\ calls[c].pc = "v_exist"
    /\ calls' = [calls EXCEPT ![c] =
         IF existingPurchase(toLowerCase(calls[c].email), calls[c].sale)
         THEN Returned(c, "DuplicateRequest", "")
         ELSE [calls[c] EXCEPT !.pc = "v_dec"]]
    /\ UNCHANGED <<now, saleProduct, saleStock, initSaleStock, productStock,
                   initProductStock, otps, nextOtpId, customers, purchases,
                   jobs, mails, faults, redelivered>>

\* FlashSale.findByIdAndUpdate(id, {$inc: {stock: -1}}, {new: true}):
\* the stock after the update
DecrementSaleStock(stock) == stock - 1

\* the decrement, then the test `updatedFlashSale.stock < 0`
VerDecrement(c) ==
    /\ calls[c].pc = "v_dec"
    /\ LET s == calls[c].sale
           upd == DecrementSaleStock(saleStock[s])
       IN /\ saleStock' = [saleStock EXCEPT ![s] = upd]
          /\ calls' = [calls EXCEPT ![c].updStock = upd,
                          ![c].pc = IF upd < 0 THEN "v_soldout" ELSE "v_save"]
    /\ UNCHANGED <<now, saleProduct, initSaleStock, productStock,
                   initProductStock, otps, nextOtpId, customers, purchases,
                   jobs, mails, faults, redelivered>>

\* FlashSale.findByIdAndUpdate(id, {$inc: {stock: 1}}): the stock after it
MutRollbackSaleStock(stock) == stock
RollbackSaleStock(stock) == stock + 1

\* rollback of the decrement that went negative, 400 out of stock
VerSoldOut(c) ==
    /\ calls[c].pc = "v_soldout"
    /\ saleStock' = [saleStock EXCEPT ![calls[c].sale] = RollbackSaleStock(@)]
    /\ calls' = [calls EXCEPT ![c] = Returned(c, "SoldOut", "")]
    /\ UNCHANGED <<now, saleProduct, initSaleStock, productStock,
                   initProductStock, otps, nextOtpId, customers, purchases,
                   jobs, mails, faults, redelivered>>

\* the unique index {userEmail: 1, saleId: 1} accepts the document
MutUniqueIndexAccepts(e, s) == TRUE
UniqueIndexAccepts(e, s) == ~existingPurchase(e, s)

\* purchase.save() of {userEmail, productId, saleId, verified: true}
VerSave(c) ==
    /\ calls[c].pc = "v_save"
    /\ LET e == toLowerCase(calls[c].email)
           s == calls[c].sale
       IN IF UniqueIndexAccepts(e, s)
          THEN /\ purchases' = Append(purchases,
                      [userEmail |-> e, productId |-> calls[c].product,
                       saleId |-> s, verified |-> TRUE, reason |-> ""])
               /\ calls' = [calls EXCEPT ![c].pc = "v_delotp",
                                         ![c].purchaseId = Len(purchases) + 1]
          ELSE /\ purchases' = purchases
               /\ calls' = [calls EXCEPT ![c].pc = "v_rollback",
                                         ![c].cause = "unique"]
    /\ UNCHANGED <<now, saleProduct, saleStock, initSaleStock, productStock,
                   initProductStock, otps, nextOtpId, customers, jobs, mails,
                   faults, redelivered>>

\* purchase.save() throws for another reason (store failure)
VerSaveFault(c) ==
    /\ calls[c].pc = "v_save"
    /\ faults < MaxFaults
    /\ faults' = faults + 1
    /\ calls' = [calls EXCEPT ![c].pc = "v_rollback", ![c].cause = "fault"]
    /\ UNCHANGED <<now, saleProduct, saleStock, initSaleStock, productStock,
                   initProductStock, otps, nextOtpId, customers, purchases,
                   jobs, mails, redelivered>>

\* OTP.deleteOne of the used code, sendPurchaseConfirmation (not awaited),
\* the success response
VerDeleteOtp(c) ==
    /\ calls[c].pc = "v_delotp"
    /\ otps' = {o \in otps : o.id # calls[c].otpId}
    /\ mails' = mails \cup {<<"confirmation", calls[c].purchaseId, "verify">>}
    /\ calls' = [calls EXCEPT ![c] = Returned(c, "Success", "")]
    /\ UNCHANGED <<now, saleProduct, saleStock, initSaleStock, productStock,
                   initProductStock, nextOtpId, customers, purchases, jobs,
                   faults, redelivered>>

\* OTP.deleteOne of the used code throws (store failure)
VerDeleteOtpFault(c) ==
    /\ calls[c].pc = "v_delotp"
    /\ faults < MaxFaults
    /\ faults' = faults + 1
    /\ calls' = [calls EXCEPT ![c].pc = "v_rollback", ![c].cause = "fault"]
    /\ UNCHANGED <<now, saleProduct, saleStock, initSaleStock, productStock,
                   initProductStock, otps, nextOtpId, customers, purchases,
                   jobs, mails, redelivered>>

\* catch (purchaseError): $inc stock by 1, rethrow, 500
VerRollback(c) ==
    /\ calls[c].pc = "v_rollback"
    /\ saleStock' = [saleStock EXCEPT ![calls[c].sale] = RollbackSaleStock(@)]
    /\ calls' = [calls EXCEPT ![c] = Returned(c, "InternalError", calls[c].cause)]
    /\ UNCHANGED <<now, saleProduct, initSaleStock, productStock,
                   initProductStock, otps, nextOtpId, customers, purchases,
                   jobs, mails, faults, redelivered>>

\* ================================================ fulfillment queue

JobIds == 1..Len(jobs)
UNCH_Worker == UNCHANGED <<now, saleProduct, saleStock, initSaleStock,
                           initProductStock, otps, nextOtpId, customers, calls,
                           faults, redelivered>>

\* Purchase.findByIdAndUpdate(id, {verified, $set: {'metadata.reason'}})
markPurchase(id, v, why) ==
    IF id \in PurchaseIds
    THEN [purchases EXCEPT ![id].verified = v, ![id].reason = why]
    ELSE purchases

\* enqueuePurchase(jobData): purchaseQueue.add('process-purchase', jobData)
EnqueuePurchase(pid) ==
    /\ Len(jobs) < MaxJobs
    /\ pid \in PurchaseIds
    /\ jobs' = Append(jobs, [purchaseId |-> pid, state |-> "waiting",
                             pc |-> "", attemptsMade |-> 0, again |-> FALSE])
    /\ UNCHANGED <<purchases, productStock, mails>> /\ UNCH_Worker

\* the Worker takes a waiting job, at most `concurrency` at a time
WorkerTake(j) ==
    /\ jobs[j].state = "waiting"
    /\ Cardinality({k \in JobIds : jobs[k].state = "active"}) < Concurrency
    /\ jobs' = [jobs EXCEPT ![j].state = "active", ![j].pc = "w_load"]
    /\ UNCHANGED <<purchases, productStock, mails>> /\ UNCH_Worker

\* Purchase.findById, the tests `!purchase` and `!purchase.verified`,
\* Product.findById and FlashSale.findById
WorkerLoad(j) ==
    /\ jobs[j].state = "active" /\ jobs[j].pc = "w_load"
    /\ jobs' = [jobs EXCEPT ![j].pc =
          IF jobs[j].purchaseId \notin PurchaseIds THEN "w_catch"
          ELSE IF ~purchases[jobs[j].purchaseId].verified THEN "w_catch"
          ELSE "w_dup"]
    /\ UNCHANGED <<purchases, productStock, mails>> /\ UNCH_Worker

\* processPurchaseLogic step 1: Purchase.findOne({userEmail, productId,
\* verified: true, _id: {$ne: purchase._id}})
MutOtherVerifiedPurchase(id) == FALSE
otherVerifiedPurchase(id) ==
    \E i \in PurchaseIds :
        /\ i # id
        /\ purchases[i].userEmail = purchases[id].userEmail
        /\ purchases[i].productId = purchases[id].productId
        /\ purchases[i].verified

WorkerDuplicateCheck(j) ==
    /\ jobs[j].state = "active" /\ jobs[j].pc = "w_dup"
    /\ jobs' = [jobs EXCEPT ![j].pc =
          IF otherVerifiedPurchase(jobs[j].purchaseId)
          THEN "w_markdup" ELSE "w_dec"]
    /\ UNCHANGED <<purchases, productStock, mails>> /\ UNCH_Worker

\* mark the purchase unverified, reason duplicate_purchase
WorkerMarkDuplicate(j) ==
    /\ jobs[j].state = "active" /\ jobs[j].pc = "w_markdup"
    /\ purchases' = markPurchase(jobs[j].purchaseId, FALSE, "duplicate_purchase")
    /\ jobs' = [jobs EXCEPT ![j].pc = "w_failmail"]
    /\ UNCHANGED <<productStock, mails>> /\ UNCH_Worker

\* Product.findOneAndUpdate({_id, stock: {$gt: 0}}, {$inc: {stock: -1}}):
\* TRUE when a document matched
MutProductMatches(stock) == TRUE
ProductMatches(stock) == stock > 0

\* processPurchaseLogic step 2: the conditional decrement of Product.stock
WorkerDecrement(j) ==
    /\ jobs[j].state = "active" /\ jobs[j].pc = "w_dec"
    /\ LET p == purchases[jobs[j].purchaseId].productId
       IN IF ProductMatches(productStock[p])
          THEN /\ productStock' = [productStock EXCEPT ![p] = @ - 1]
               /\ jobs' = [jobs EXCEPT ![j].pc = "w_markok"]
          ELSE /\ productStock' = productStock
               /\ jobs' = [jobs EXCEPT ![j].pc = "w_marksold"]
    /\ UNCHANGED <<purchases, mails>> /\ UNCH_Worker

\* mark the purchase unverified, reason sold_out
WorkerMarkSoldOut(j) ==
    /\ jobs[j].state = "active" /\ jobs[j].pc = "w_marksold"
    /\ purchases' = markPurchase(jobs[j].purchaseId, FALSE, "sold_out")
    /\ jobs' = [jobs EXCEPT ![j].pc = "w_failmail"]
    /\ UNCHANGED <<productStock, mails>> /\ UNCH_Worker

\* processPurchaseLogic step 3: verified: true, reason processed_successfully
WorkerMarkSuccess(j) ==
    /\ jobs[j].state = "active" /\ jobs[j].pc = "w_markok"
    /\ purchases' = markPurchase(jobs[j].purchaseId, TRUE, "processed_successfully")
    /\ jobs' = [jobs EXCEPT ![j].pc = "w_okmail"]
    /\ UNCHANGED <<productStock, mails>> /\ UNCH_Worker

\* the step 3 update throws (store failure): processPurchaseLogic's catch
WorkerMarkSuccessFault(j) ==
    /\ jobs[j].state = "active" /\ jobs[j].pc = "w_markok"
    /\ faults < MaxFaults
    /\ faults' = faults + 1
    /\ jobs' = [jobs EXCEPT ![j].pc = "w_markerr"]
    /\ UNCHANGED <<now, saleProduct, saleStock, initSaleStock, productStock,
                   initProductStock, otps, nextOtpId, customers, purchases,
                   calls, mails, redelivered>>

\* processPurchaseLogic catch: verified: false, reason processing_error, rethrow
WorkerMarkError(j) ==
    /\ jobs[j].state = "active" /\ jobs[j].pc = "w_markerr"
    /\ purchases' = markPurchase(jobs[j].purchaseId, FALSE, "processing_error")
    /\ jobs' = [jobs EXCEPT ![j].pc = "w_catch"]
    /\ UNCHANGED <<productStock, mails>> /\ UNCH_Worker

\* performAdditionalProcessing, emailService.sendPurchaseConfirmation, return
WorkerConfirm(j) ==
    /\ jobs[j].state = "active" /\ jobs[j].pc = "w_okmail"
    /\ mails' = mails \cup {<<"confirmation", jobs[j].purchaseId, "worker">>}
    /\ jobs' = [jobs EXCEPT ![j].state = "completed", ![j].pc = ""]
    /\ UNCHANGED <<purchases, productStock>> /\ UNCH_Worker

\* sendFailureNotification, return
WorkerNotifyFailure(j) ==
    /\ jobs[j].state = "active" /\ jobs[j].pc = "w_failmail"
    /\ mails' = mails \cup {<<"failure", jobs[j].purchaseId, "worker">>}
    /\ jobs' = [jobs EXCEPT ![j].state = "completed", ![j].pc = ""]
    /\ UNCHANGED <<purchases, productStock>> /\ UNCH_Worker

\* the processor's catch: on `job.attemptsMade >= attempts` mark the purchase
\* job_failed_final and notify; rethrow.  The queue then counts the attempt
\* and retries the job while attempts remain.
WorkerCatch(j) ==
    /\ jobs[j].state = "active" /\ jobs[j].pc = "w_catch"
    /\ LET final == jobs[j].attemptsMade >= Attempts
       IN /\ purchases' = IF final
                          THEN markPurchase(jobs[j].purchaseId, FALSE, "job_failed_final")
                          ELSE purchases
          /\ mails' = IF final
                      THEN mails \cup {<<"failure", jobs[j].purchaseId, "worker">>}
                      ELSE mails
    /\ jobs' = [jobs EXCEPT ![j].attemptsMade = @ + 1, ![j].pc = "",
                            ![j].state = IF jobs[j].attemptsMade + 1 < Attempts
                                         THEN "waiting" ELSE "failed"]
    /\ UNCHANGED productStock /\ UNCH_Worker

\* at-least-once delivery: a job that has completed is delivered again
Redeliver(j) ==
    /\ jobs[j].state = "completed"
    /\ redelivered < MaxRedeliver
    /\ redelivered' = redelivered + 1
    /\ jobs' = [jobs EXCEPT ![j].state = "waiting", ![j].again = TRUE]
    /\ UNCHANGED <<now, saleProduct, saleStock, initSaleStock, productStock,
                   initProductStock, otps, nextOtpId, customers, purchases,
                   calls, mails, faults>>

\* a stalled job: the lock of an active job expires, the queue hands the
\* job to a free worker slot while the first processor is still running
RedeliverStalled(j) ==
    /\ jobs[j].state = "active"
    /\ redelivered < MaxRedeliver
    /\ redelivered' = redelivered + 1
    /\ jobs' = Append(jobs, [purchaseId |-> jobs[j].purchaseId,
                             state |-> "waiting", pc |-> "",
                             attemptsMade |-> jobs[j].attemptsMade,
                             again |-> FALSE])
    /\ UNCHANGED <<now, saleProduct, saleStock, initSaleStock, productStock,
                   initProductStock, otps, nextOtpId, customers, purchases,
                   calls, mails, faults>>

\* ================================================== getPurchaseStatus

Limit == 10            \* .limit(10)

\* Purchase.find({userEmail: email.toLowerCase()}).populate('saleId',
\* 'startTime endTime').sort({timestamp: -1}).limit(10).lean(): copies of
\* the documents, newest first (the position in the collection stands for
\* the timestamp, taken when the document is built)
MutRecentPurchases(e) ==
    LET n == Len(purchases)
        newestFirst == [k \in 1..n |->
            [id |-> n + 1 - k,
             userEmail |-> purchases[n + 1 - k].userEmail,
             productId |-> purchases[n + 1 - k].productId,
             saleId |-> [id |-> purchases[n + 1 - k].saleId,
                         startTime |-> startTime(purchases[n + 1 - k].saleId),
                         endTime |-> endTime(purchases[n + 1 - k].saleId)],
             verified |-> purchases[n + 1 - k].verified,
             reason |-> purchases[n + 1 - k].reason,
             timestamp |-> n + 1 - k]]
    IN SelectSeq(newestFirst, LAMBDA d : d.userEmail = e)
recentPurchases(e) ==
    LET n == Len(purchases)
        newestFirst == [k \in 1..n |->
            [id |-> n + 1 - k,
             userEmail |-> purchases[n + 1 - k].userEmail,
             productId |-> purchases[n + 1 - k].productId,
             saleId |-> [id |-> purchases[n + 1 - k].saleId,
                         startTime |-> startTime(purchases[n + 1 - k].saleId),
                         endTime |-> endTime(purchases[n + 1 - k].saleId)],
             verified |-> purchases[n + 1 - k].verified,
             reason |-> purchases[n + 1 - k].reason,
             timestamp |-> n + 1 - k]]
        found == SelectSeq(newestFirst, LAMBDA d : d.userEmail = toLowerCase(e))
    IN SubSeq(found, 1, IF Len(found) < Limit THEN Len(found) ELSE Limit)

\* validation of req.params.email
GetPurchaseStatus(c, e) ==
    /\ calls[c].pc = "idle" /\ Started(c)
    /\ LET in == [NoCall EXCEPT !.op = "status", !.email = e]
       IN calls' = [calls EXCEPT ![c] =
            IF ~emailRegex(e)
            THEN [in EXCEPT !.pc = "done", !.result = "InvalidInput"]
            ELSE [in EXCEPT !.pc = "s_find"]]
    /\ UNCHANGED <<now, saleProduct, saleStock, initSaleStock, productStock,
                   initProductStock, otps, nextOtpId, customers, purchases,
                   jobs, mails, faults, redelivered>>

\* Purchase.find
StatusFind(c) ==
    /\ calls[c].pc = "s_find"
    /\ calls' = [calls EXCEPT ![c].pc = "s_otp",
                              ![c].recentPurchases =
                                  recentPurchases(calls[c].email)]
    /\ UNCHANGED <<now, saleProduct, saleStock, initSaleStock, productStock,
                   initProductStock, otps, nextOtpId, customers, purchases,
                   jobs, mails, faults, redelivered>>

\* OTP.findOne({email, expiresAt > now}), res.json
StatusFindOtp(c) ==
    /\ calls[c].pc = "s_otp"
    /\ calls' = [calls EXCEPT ![c] =
          [Returned(c, "Success", "") EXCEPT !.hasPendingOTP =
              \E o \in otps : /\ o.email = toLowerCase(calls[c].email)
                               /\ o.expiresAt > now]]
    /\ UNCHANGED <<now, saleProduct, saleStock, initSaleStock, productStock,
                   initProductStock, otps, nextOtpId, customers, purchases,
                   jobs, mails, faults, redelivered>>

\* ==================================================== sale listings

\* getActiveFlashSales / getFlashSaleSummary activeCount:
\* {startTime <= now, endTime >= now, stock > 0}
activeSales ==
    {s \in Sales : startTime(s) <= now /\ endTime(s) >= now /\ saleStock[s] > 0}

\* getUpcomingFlashSales / upcomingCount: {startTime > now}
upcomingSales == {s \in Sales : startTime(s) > now}

\* getEndedFlashSales / endedCount: {endTime < now}
endedSales == {s \in Sales : endTime(s) < now}

\* ============================================================= clock

Tick ==
    /\ now < MaxTime
    /\ now' = now + 1
    /\ UNCHANGED <<saleProduct, saleStock, initSaleStock, productStock,
                   initProductStock, otps, nextOtpId, customers, purchases,
                   jobs, calls, mails, faults, redelivered>>

\* ===================================================== specifications

RequestStep(c) ==
    \/ ReqFindSale(c)
    \/ ReqExisting(c)
    \/ ReqCustomer(c)
    \/ ReqDeleteOtps(c)
    \/ ReqSaveOtp(c)
    \/ ReqSendOk(c)
    \/ ReqSendFail(c)
    \/ ReqCleanup(c)

VerifyStep(c) ==
    \/ VerFindSale(c)
    \/ VerExisting(c)
    \/ VerDecrement(c)
    \/ VerSoldOut(c)
    \/ VerSave(c)
    \/ VerSaveFault(c)
    \/ VerDeleteOtp(c)
    \/ VerDeleteOtpFault(c)
    \/ VerRollback(c)

\* the steps of a verifyPurchase call that runs alone: it never finds the
\* stock negative after its decrement
VerifyStepAlone(c) ==
    \/ VerFindSale(c)
    \/ VerExisting(c)
    \/ VerDecrement(c)
    \/ VerSave(c)
    \/ VerSaveFault(c)
    \/ VerDeleteOtp(c)
    \/ VerDeleteOtpFault(c)
    \/ VerRollback(c)

WorkerStep(j) ==
    \/ WorkerTake(j)
    \/ WorkerLoad(j)
    \/ WorkerDuplicateCheck(j)
    \/ WorkerMarkDuplicate(j)
    \/ WorkerDecrement(j)
    \/ WorkerMarkSoldOut(j)
    \/ WorkerMarkSuccess(j)
    \/ WorkerMarkSuccessFault(j)
    \/ WorkerMarkError(j)
    \/ WorkerConfirm(j)
    \/ WorkerNotifyFailure(j)
    \/ WorkerCatch(j)
    \/ Redeliver(j)

\* every handler and every worker, freely interleaved
Next ==
    \/ \E c \in CallIds, e \in RawEmails, p \in Products : RequestPurchase(c, e, p)
    \/ \E c \in CallIds : RequestStep(c)
    \/ \E c \in CallIds, e \in RawEmails, p \in Products, o \in Codes :
          VerifyPurchase(c, e, p, o)
    \/ \E c \in CallIds : VerifyStep(c)
    \/ \E c \in CallIds : VerDeleteExpired(c)
    \/ \E pid \in PurchaseIds : EnqueuePurchase(pid)
    \/ \E j \in JobIds : WorkerStep(j)
    \/ Tick

Spec == Init /\ [][Next]_vars

\* no handler is in flight
Quiet == \A c \in CallIds : calls[c].pc \in {"idle", "done"}
NoRequestInFlight ==
    \A c \in CallIds : calls[c].op = "request" => calls[c].pc = "done"
NoVerifyYet == \A c \in CallIds : calls[c].op # "verify"

\* Concurrent verifyPurchase calls, within one clock tick: the codes are
\* issued by requestPurchase calls that run one at a time, then the
\* verifyPurchase calls interleave freely at every store operation.
InitVerify ==
    /\ Init
    /\ saleProduct = [s \in Sales |-> IF s = "s1" THEN "p1" ELSE "p2"]
    /\ productStock = [p \in Products |-> MaxProductStock]

NextVerify ==
    \/ \E c \in CallIds, e \in RawEmails, p \in Products :
          Quiet /\ NoVerifyYet /\ RequestPurchase(c, e, p)
    \/ \E c \in CallIds : RequestStep(c)
    \/ \E c \in CallIds, e \in RawEmails, p \in Products, o \in Codes :
          NoRequestInFlight /\ VerifyPurchase(c, e, p, o)
    \/ \E c \in CallIds : VerifyStep(c)

SpecVerify == InitVerify /\ [][NextVerify]_vars

\* Concurrent fulfillment workers, within one clock tick: the handlers run
\* one at a time and create the purchases, then jobs are added to the queue
\* and processed concurrently, interleaved at every store operation.  All
\* purchases are of product p1.
InitWorker ==
    /\ Init
    /\ saleProduct = [s \in Sales |-> IF s = "s1" THEN "p1" ELSE "p2"]
    /\ saleStock = [s \in Sales |-> MaxSaleStock]
    /\ productStock["p2"] = MaxProductStock

NextWorker ==
    \/ \E c \in CallIds, e \in RawEmails, p \in {"p1"} :
          Quiet /\ jobs = <<>> /\ RequestPurchase(c, e, p)
    \/ \E c \in CallIds : RequestStep(c)
    \/ \E c \in CallIds, e \in RawEmails, p \in {"p1"}, o \in Codes :
          Quiet /\ jobs = <<>> /\ VerifyPurchase(c, e, p, o)
    \/ \E c \in CallIds : VerifyStepAlone(c)
    \/ \E pid \in PurchaseIds : Quiet /\ EnqueuePurchase(pid)
    \/ \E j \in JobIds : WorkerStep(j)

SpecWorker == InitWorker /\ [][NextWorker]_vars

\* the handlers that have started and not yet returned
InFlight == {c \in CallIds : calls[c].pc \notin {"idle", "done"}}

\* Concurrent requestPurchase calls, within one clock tick: at most two
\* calls at a time, interleaved freely at every store operation and at the
\* mail transport.
InitRequest ==
    /\ Init
    /\ saleProduct = [s \in Sales |-> IF s = "s1" THEN "p1" ELSE "p2"]
    /\ productStock = [p \in Products |-> MaxProductStock]
    /\ saleStock["s2"] = MaxSaleStock

NextRequest ==
    \/ \E c \in CallIds, e \in RawEmails, p \in Products :
          Cardinality(InFlight) < 2 /\ RequestPurchase(c, e, p)
    \/ \E c \in CallIds : RequestStep(c)

SpecRequest == InitRequest /\ [][NextRequest]_vars

\* Two sale windows of one product, one after the other: one customer, who
\* requests a code when none is outstanding and submits the code received;
\* the handlers run one at a time, the clock advances between calls, and the
\* fulfillment workers run concurrently with each other, their store
\* operations falling between the calls.
InitWindows ==
    /\ Init
    /\ saleProduct = [s \in Sales |-> "p1"]
    /\ saleStock = [s \in Sales |-> MaxSaleStock]
    /\ productStock = [p \in Products |-> MaxProductStock]

NextWindows ==
    \/ \E c \in CallIds, e \in {"A@x.io"}, p \in {"p1"} :
          Quiet /\ otps = {} /\ RequestPurchase(c, e, p)
    \/ \E c \in CallIds : RequestStep(c)
    \/ \E c \in CallIds, e \in {"A@x.io"}, p \in {"p1"}, o \in Codes :
          Quiet /\ otps # {} /\ VerifyPurchase(c, e, p, o)
    \/ \E c \in CallIds : VerifyStepAlone(c)
    \/ \E c \in CallIds : VerDeleteExpired(c)
    \/ Quiet /\ Tick
    \/ \E pid \in PurchaseIds : Quiet /\ EnqueuePurchase(pid)
    \/ \E j \in JobIds : Quiet /\ WorkerStep(j)
    \/ \E j \in JobIds : Quiet /\ RedeliverStalled(j)

SpecWindows == InitWindows /\ [][NextWindows]_vars

\* Request bodies of every kind, well-formed or not: one customer, the
\* handlers run one at a time, within one clock tick.
InitFailFast ==
    /\ Init
    /\ saleProduct = [s \in Sales |-> IF s = "s1" THEN "p1" ELSE "p2"]
    /\ productStock = [p \in Products |-> MaxProductStock]
    /\ saleStock["s2"] = MaxSaleStock

\* the request bodies: well-formed ones, and ones with one field malformed
RequestBodies ==
    ({"A@x.io"} \X Products) \cup (BadEmails \X {"p1"}) \cup ({"A@x.io"} \X BadProducts)
VerifyBodies ==
    ({"A@x.io"} \X Products \X (Codes \cup WrongCodes))
        \cup (BadEmails \X {"p1"} \X Codes)
        \cup ({"A@x.io"} \X BadProducts \X Codes)
        \cup ({"A@x.io"} \X {"p1"} \X BadCodes)

NextFailFast ==
    \/ \E c \in CallIds, b \in RequestBodies :
          Quiet /\ RequestPurchase(c, b[1], b[2])
    \/ \E c \in CallIds : RequestStep(c)
    \/ \E c \in CallIds, b \in VerifyBodies :
          Quiet /\ VerifyPurchase(c, b[1], b[2], b[3])
    \/ \E c \in CallIds : VerifyStepAlone(c)

SpecFailFast == InitFailFast /\ [][NextFailFast]_vars

\* Polling: requestPurchase and verifyPurchase calls run one at a time,
\* getPurchaseStatus calls start at any moment and interleave with them.
InitStatus ==
    /\ Init
    /\ saleProduct = [s \in Sales |-> IF s = "s1" THEN "p1" ELSE "p2"]
    /\ productStock = [p \in Products |-> MaxProductStock]
    /\ saleStock["s2"] = MaxSaleStock

NextStatus ==
    \/ \E c \in CallIds, e \in RawEmails, p \in Products :
          Quiet /\ RequestPurchase(c, e, p)
    \/ \E c \in CallIds : RequestStep(c)
    \/ \E c \in CallIds, e \in RawEmails, p \in Products, o \in Codes :
          Quiet /\ VerifyPurchase(c, e, p, o)
    \/ \E c \in CallIds : VerifyStepAlone(c)
    \/ \E c \in CallIds, e \in RawEmails \cup BadEmails :
          GetPurchaseStatus(c, e)
    \/ \E c \in CallIds : StatusFind(c)
    \/ \E c \in CallIds : StatusFindOtp(c)

SpecStatus == InitStatus /\ [][NextStatus]_vars

\* ============================================================== claims

VerifyCalls == {c \in CallIds : calls[c].op = "verify"}
Succeeded(c) == calls[c].pc = "done" /\ calls[c].result = "Success"
RecordsOfSale(s) == {i \in PurchaseIds : purchases[i].saleId = s}

\* C1: the Purchase collection never holds two documents with the same
\* (userEmail, saleId), whatever the interleaving of verifyPurchase calls.
C1_OnePurchasePerEmailAndSale ==
    \A i, k \in PurchaseIds :
        (purchases[i].userEmail = purchases[k].userEmail
           /\ purchases[i].saleId = purchases[k].saleId) => i = k

\* two calls passed the existence pre-check and the index rejected the second
C1_Witness ==
    \E c, d \in VerifyCalls :
        /\ c # d
        /\ calls[c].pc = "v_rollback" /\ calls[c].cause = "unique"
        /\ calls[d].purchaseId \in PurchaseIds
        /\ purchases[calls[d].purchaseId].userEmail = toLowerCase(calls[c].email)
        /\ purchases[calls[d].purchaseId].saleId = calls[c].sale

\* C2: FlashSale.stock is never negative, also while verifyPurchase calls
\* are in flight.
C2_SaleStockNeverNegative == \A s \in Sales : saleStock[s] >= 0

\* the verifyPurchase calls that held a valid code and went for sale s
Admitted(s) ==
    {c \in VerifyCalls : calls[c].pc = "done"
                           /\ calls[c].product = saleProduct[s]
                           /\ calls[c].result \notin {"InvalidInput", "InvalidOtp"}}
DistinctEmails(S) ==
    \A c, d \in S : toLowerCase(calls[c].email) = toLowerCase(calls[d].email) => c = d

\* C3: when N verifyPurchase calls with valid codes and pairwise distinct
\* emails have all returned for a sale that started with stock k < N (and no
\* store operation failed), exactly k of them succeeded, the sale has exactly
\* k purchase records and its stock is 0.
C3_ExactlyStockManySucceed ==
    (Quiet /\ faults = 0) =>
        \A s \in Sales :
            (DistinctEmails(Admitted(s))
               /\ initSaleStock[s] < Cardinality(Admitted(s))) =>
                /\ Cardinality({c \in Admitted(s) : Succeeded(c)}) = initSaleStock[s]
                /\ Cardinality(RecordsOfSale(s)) = initSaleStock[s]
                /\ saleStock[s] = 0

\* two calls with distinct emails raced for the last unit: one got it
C3_Witness ==
    /\ Quiet /\ faults = 0
    /\ \E s \in Sales : \E c, d \in Admitted(s) :
          /\ initSaleStock[s] = 1
          /\ toLowerCase(calls[c].email) # toLowerCase(calls[d].email)
          /\ Succeeded(c)
          /\ calls[d].result = "SoldOut"
          /\ saleStock[s] = 0

\* the call c won and the call d lost the insert race for one (email, sale)
InsertRace(c, d) ==
    /\ c \in VerifyCalls /\ d \in VerifyCalls /\ c # d
    /\ toLowerCase(calls[c].email) = toLowerCase(calls[d].email)
    /\ calls[c].sale = calls[d].sale
    /\ Succeeded(c)
    /\ calls[d].pc = "done" /\ calls[d].result = "InternalError"
    /\ calls[d].cause = "unique"

\* C4: when two verifyPurchase calls for the same (email, sale) both passed
\* the pre-check and the insert of one was rejected by the unique index,
\* then once every call has returned the two calls together have taken
\* exactly one unit of the sale's stock (no other call bought from the sale).
C4_LoserRollsBack ==
    Quiet =>
        \A c, d \in CallIds :
            (InsertRace(c, d)
               /\ \A x \in VerifyCalls \ {c, d} :
                     ~(calls[x].sale = calls[c].sale /\ calls[x].purchaseId # 0)) =>
                saleStock[calls[c].sale] = initSaleStock[calls[c].sale] - 1

C4_Witness ==
    /\ Quiet
    /\ \E c, d \in CallIds :
          /\ InsertRace(c, d)
          /\ saleStock[calls[c].sale] = initSaleStock[calls[c].sale] - 1
          /\ Cardinality(RecordsOfSale(calls[c].sale)) = 1

\* C5: whenever no verifyPurchase call is in flight, for every sale the
\* stock taken (initial stock minus stock) equals the number of purchase
\* records of the sale, also when the insert or the deletion of the used
\* code throws.
C5_StockMatchesRecords ==
    Quiet =>
        \A s \in Sales :
            initSaleStock[s] - saleStock[s] = Cardinality(RecordsOfSale(s))

\* the purchase is confirmed / in a terminal state
Confirmed(i) == purchases[i].verified /\ purchases[i].reason = "processed_successfully"
Terminal(i) == Confirmed(i) \/ (~purchases[i].verified /\ purchases[i].reason # "")

\* C6: a step of a job that is delivered again after it completed (its
\* purchase is then confirmed or rejected) leaves Product.stock unchanged.
C6_RedeliveryKeepsProductStock ==
    [][(\E j \in JobIds : /\ jobs[j].again
                          /\ jobs[j].state = "active"
                          /\ jobs'[j] # jobs[j])
          => productStock' = productStock]_vars

\* C7: Product.stock is never negative and the confirmed purchases of a
\* product never outnumber the product's initial stock.
C7_ProductStockBounds ==
    \A p \in Products :
        /\ productStock[p] >= 0
        /\ Cardinality({i \in PurchaseIds : purchases[i].productId = p /\ Confirmed(i)})
              <= initProductStock[p]

\* two workers raced for the last unit of a product: one took it, the other
\* found none left
C7_Witness ==
    \E j, k \in JobIds :
        /\ j # k
        /\ jobs[j].purchaseId # jobs[k].purchaseId
        /\ jobs[j].state = "active" /\ jobs[j].pc = "w_markok"
        /\ jobs[k].state = "active" /\ jobs[k].pc = "w_marksold"
        /\ initProductStock["p1"] = 1 /\ productStock["p1"] = 0

\* C8: every purchase created by verifyPurchase reaches a terminal state:
\* once no handler is in flight and the queue holds no waiting or active
\* job, every purchase is confirmed or rejected.
C8_EveryPurchaseTerminates ==
    (Quiet /\ \A j \in JobIds : jobs[j].state \in {"completed", "failed"}) =>
        \A i \in PurchaseIds : Terminal(i)

\* C9: a verifyPurchase call that has returned success has put a job for
\* its purchase on the queue.
C9_SuccessEnqueuesJob ==
    \A c \in VerifyCalls :
        Succeeded(c) => \E j \in JobIds : jobs[j].purchaseId = calls[c].purchaseId

\* C10: over all submissions of one issued code, sequential or concurrent
\* and for any product, at most one verifyPurchase succeeds: the code is
\* consumed by the first success (no store operation having failed).
C10_CodeSucceedsOnce ==
    (Quiet /\ faults = 0) =>
        \A c, d \in VerifyCalls :
            (c # d /\ calls[c].otpId # 0 /\ calls[c].otpId = calls[d].otpId) =>
                ~(Succeeded(c) /\ Succeeded(d))

RequestCalls == {c \in CallIds : calls[c].op = "request"}

\* the codes of email e that have not expired
Unexpired(e) == {o \in otps : o.email = e /\ now < o.expiresAt}

\* C11: at most one unexpired OTP exists per email in every reachable state,
\* also when requestPurchase calls for the same email run concurrently.
C11_OneUnexpiredCodePerEmail ==
    \A c \in RequestCalls : Cardinality(Unexpired(toLowerCase(calls[c].email))) <= 1

\* C12: a requestPurchase call whose mail delivery failed has returned a
\* failure and the OTP it created is no longer in the store.
C12_FailedDeliveryRemovesCode ==
    \A c \in RequestCalls :
        (calls[c].pc = "done" /\ calls[c].otpId # 0 /\ calls[c].result # "Success") =>
            /\ calls[c].result = "DeliveryFailed"
            /\ \A o \in otps : o.id # calls[c].otpId

\* a call saved a code, its mail failed and it has returned; a concurrent
\* call for the same email still holds its own code
C12_Witness ==
    \E c, d \in RequestCalls :
        /\ calls[c].pc = "done" /\ calls[c].result = "DeliveryFailed"
        /\ calls[c].otpId # 0
        /\ c # d /\ toLowerCase(calls[d].email) = toLowerCase(calls[c].email)
        /\ \E o \in otps : o.id = calls[d].otpId

\* the call c holds a unit of the sale of product p that it took in this
\* behaviour and has not returned yet
HoldsUnit(c, p) ==
    /\ calls[c].op = "verify" /\ calls[c].product = p
    /\ calls[c].pc \in {"v_save", "v_delotp"}

\* C13: a verifyPurchase call with a valid code that returns without a unit
\* because the stock of the sale is exhausted (a concurrent call for another
\* email holds the last unit) returns SoldOut.
C13_ExhaustedStockIsSoldOut ==
    [][\A d \in CallIds :
          (/\ calls[d].pc \in {"v_sale", "v_soldout"}
           /\ calls'[d].pc = "done"
           /\ \A s \in Sales : saleProduct[s] = calls[d].product => saleStock[s] <= 0
           /\ \E c \in CallIds \ {d} :
                  /\ HoldsUnit(c, calls[d].product)
                  /\ toLowerCase(calls[c].email) # toLowerCase(calls[d].email))
          => calls'[d].result = "SoldOut"]_vars

\* C14: the verifyPurchase call whose insert was rejected by the unique
\* index on (userEmail, saleId) returns DuplicateRequest.
C14_InsertRaceLoserIsDuplicate ==
    \A d \in VerifyCalls :
        (calls[d].pc = "done" /\ calls[d].cause = "unique") =>
            calls[d].result = "DuplicateRequest"

\* C15: a job that has thrown on each of its three attempts has left its
\* purchase unverified with reason job_failed_final, and a failure
\* notification for the purchase has been requested.
C15_ExhaustedJobMarksFinal ==
    \A j \in JobIds :
        (jobs[j].state = "failed" /\ jobs[j].attemptsMade = Attempts) =>
            /\ ~purchases[jobs[j].purchaseId].verified
            /\ purchases[jobs[j].purchaseId].reason = "job_failed_final"
            /\ <<"failure", jobs[j].purchaseId, "worker">> \in mails

\* the email of record i holds another record for the same product that is
\* verified
HoldsOtherVerified(i) ==
    \E k \in PurchaseIds \ {i} :
        /\ purchases[k].userEmail = purchases[i].userEmail
        /\ purchases[k].productId = purchases[i].productId
        /\ purchases[k].verified

\* the job j is on the duplicate branch of processPurchaseLogic
OnDuplicateBranch(j) ==
    /\ jobs[j].state = "active"
    /\ \/ jobs[j].pc = "w_dup" /\ HoldsOtherVerified(jobs[j].purchaseId)
       \/ jobs[j].pc = "w_markdup"

C18_OneConfirmedPerEmailAndProduct ==
    \A i, k \in PurchaseIds :
        (/\ purchases[i].userEmail = purchases[k].userEmail
         /\ purchases[i].productId = purchases[k].productId
         /\ Confirmed(i) /\ Confirmed(k)) => i = k

C19_ExpiryBoundaryExclusive ==
    [][\A c \in CallIds :
          (calls[c].pc = "idle" /\ calls'[c].pc = "v_sale") =>
              \A r \in otps : r.id = calls'[c].otpId => now < r.expiresAt]_vars

\* the positions of a handler before its first write to a store
ReadOnlyPcs == {"idle", "r_sale", "r_exist", "v_sale", "v_exist"}

\* the outcomes of the input validation, the sale lookup, the code lookup
\* (no such code) and the existence pre-check
FailsFast(r) ==
    \/ r.result \in {"InvalidInput", "NoActiveSale", "SaleNotActive"}
    \/ r.result = "InvalidOtp" /\ r.cause = "nocode"
    \/ r.result = "DuplicateRequest"

\* C20: a requestPurchase or verifyPurchase call that fails with
\* InvalidInput, NoActiveSale / SaleNotActive, InvalidOtp for a wrong code
\* or DuplicateRequest has written to no store: it returns from a position
\* that only steps without writes lead to, and none of its steps up to the
\* return changes the OTP, Customer or Purchase collection or a stock.
C20_FailuresLeaveStoresUnchanged ==
    [][\A c \in CallIds :
          calls'[c] # calls[c] =>
              /\ (calls'[c].pc = "done" /\ FailsFast(calls'[c])) =>
                     calls[c].pc \in ReadOnlyPcs
              /\ calls'[c].pc \in ReadOnlyPcs => calls[c].pc \in ReadOnlyPcs
              /\ calls[c].pc \in ReadOnlyPcs =>
                     UNCHANGED <<otps, customers, purchases, saleStock,
                                 productStock, jobs, mails>>]_vars

\* after a purchase was made, a request was refused by the existence
\* pre-check and a well-formed code that was never issued was refused
C20_Witness ==
    /\ purchases # <<>>
    /\ \E c \in RequestCalls :
          calls[c].pc = "done" /\ calls[c].result = "DuplicateRequest"
    /\ \E c \in VerifyCalls :
          /\ calls[c].pc = "done" /\ calls[c].result = "InvalidOtp"
          /\ calls[c].cause = "nocode" /\ calls[c].otp \in WrongCodes

\* C21: every sale is in exactly one of the active, upcoming and ended
\* listings (here: every sale that started with stock).
C21_ExactlyOneSaleStatus ==
    \A s \in Sales :
        initSaleStock[s] > 0 =>
            /\ s \in activeSales \cup upcomingSales \cup endedSales
            /\ ~(s \in activeSales /\ s \in upcomingSales)
            /\ ~(s \in activeSales /\ s \in endedSales)
            /\ ~(s \in upcomingSales /\ s \in endedSales)

StatusCalls == {c \in CallIds : calls[c].op = "status"}

\* C22: no step of a getPurchaseStatus call changes a store, and when the
\* call reads the Purchase collection, every purchase that a finished
\* verifyPurchase call made for that e-mail address is in what it reads,
\* with verified = true, its sale window and its timestamp.
C22_StatusIsReadOnlyAndShowsPurchase ==
    [][\A c \in CallIds :
          (calls'[c] # calls[c] /\ calls'[c].op = "status") =>
              /\ UNCHANGED <<otps, customers, purchases, saleStock,
                             productStock, jobs, mails>>
              /\ calls[c].pc = "s_find" =>
                    \A d \in VerifyCalls :
                        (Succeeded(d) /\ toLowerCase(calls[d].email)
                                            = toLowerCase(calls[c].email)) =>
                            \E k \in 1..Len(calls'[c].recentPurchases) :
                                LET r == calls'[c].recentPurchases[k]
                                IN /\ r.id = calls[d].purchaseId
                                   /\ r.verified
                                   /\ r.saleId.id = calls[d].sale
                                   /\ r.saleId.startTime = startTime(calls[d].sale)
                                   /\ r.timestamp = calls[d].purchaseId]_vars

\* a status call for the address as typed, with capitals, returned the
\* purchase that a finished verifyPurchase call made
C22_Witness ==
    \E c \in StatusCalls, d \in VerifyCalls :
        /\ calls[c].pc = "done" /\ calls[c].result = "Success"
        /\ calls[c].email = "A@x.io"
        /\ Succeeded(d)
        /\ \E k \in 1..Len(calls[c].recentPurchases) :
              calls[c].recentPurchases[k].id = calls[d].purchaseId

\* C23: when the worker has loaded the record of its job and the record is
\* missing or has verified = false, the attempt does not throw into the
\* processor's catch (from where the queue counts the attempt as failed and
\* retries the job): the job ends there, completed.
C23_InvalidatedRecordIsNoOp ==
    [][\A j \in JobIds :
          (/\ jobs[j].state = "active" /\ jobs[j].pc = "w_load"
           /\ jobs'[j] # jobs[j]
           /\ \/ jobs[j].purchaseId \notin PurchaseIds
              \/ ~purchases[jobs[j].purchaseId].verified) =>
              /\ jobs'[j].pc # "w_catch"
              /\ jobs'[j].state = "completed"]_vars

\* C24: the step by which an attempt of a job throws, on an attempt that is
\* not the last one, leaves the purchase of the job as it was (verified,
\* without a rejection reason), so that the retry can still confirm it.
C24_RetriedErrorKeepsRecord ==
    [][\A j \in JobIds :
          (/\ jobs[j].state = "active" /\ jobs'[j] # jobs[j]
           /\ jobs'[j].pc = "w_catch"
           /\ jobs[j].attemptsMade + 1 < Attempts
           /\ jobs[j].purchaseId \in PurchaseIds) =>
              purchases'[jobs[j].purchaseId] = purchases[jobs[j].purchaseId]]_vars

\* C25: every step that changes FlashSale.stock or Product.stock takes one
\* unit from a counter that is positive, or gives back the unit of a call
\* that is rolling its own decrement back.
C25_StockChangesAreConditional ==
    [][/\ \A s \in Sales :
            saleStock'[s] # saleStock[s] =>
                \/ saleStock[s] > 0 /\ saleStock'[s] = saleStock[s] - 1
                \/ /\ saleStock'[s] = saleStock[s] + 1
                   /\ \E c \in CallIds :
                         /\ calls[c].sale = s
                         /\ calls[c].pc \in {"v_soldout", "v_rollback"}
                         /\ calls'[c].pc = "done"
       /\ \A p \in Products :
            productStock'[p] # productStock[p] =>
                productStock[p] > 0 /\ productStock'[p] = productStock[p] - 1]_vars

\* C26: a confirmation e-mail has been requested for a purchase only when
\* the worker has taken the Product.stock unit for it and marked it
\* processed_successfully; in particular the purchase is not rejected as
\* sold_out or duplicate_purchase.
C26_ConfirmationOnlyAfterFulfillment ==
    \A m \in mails :
        m[1] = "confirmation" =>
            /\ purchases[m[2]].verified
            /\ purchases[m[2]].reason = "processed_successfully"

\* C27: two purchases of one email and one product, made in two sale
\* windows, are never both rejected as duplicate_purchase.
C27_NotBothDuplicate ==
    \A i, k \in PurchaseIds :
        (/\ i # k
         /\ purchases[i].userEmail = purchases[k].userEmail
         /\ purchases[i].productId = purchases[k].productId
         /\ initProductStock[purchases[i].productId] >= 1) =>
            ~(/\ purchases[i].reason = "duplicate_purchase"
              /\ purchases[k].reason = "duplicate_purchase")

\* C28: once every job has completed or failed (each purchase having one
\* job, delivered once), the units taken from Product.stock are as many as
\* the confirmed purchases of the product: no rejected purchase keeps a
\* unit, also when the worker fails after its decrement.
C28_RejectedRecordsHoldNoStock ==
    (/\ \A j \in JobIds : jobs[j].state \in {"completed", "failed"}
     /\ redelivered = 0
     /\ \A j, k \in JobIds : jobs[j].purchaseId = jobs[k].purchaseId => j = k) =>
        \A p \in Products :
            initProductStock[p] - productStock[p] =
                Cardinality({i \in PurchaseIds :
                                purchases[i].productId = p /\ Confirmed(i)})

\* the verifyPurchase call was refused because the sale had no stock:
\* 'out of stock' after the decrement, or no sale with stock > 0 found
RejectedForStock(c) ==
    /\ calls[c].op = "verify" /\ calls[c].pc = "done"
    /\ calls[c].result \in {"SoldOut", "SaleNotActive"}

\* C29: once every call has returned (no store operation having thrown),
\* a verifyPurchase call with a valid code was refused for stock reasons
\* only if the stock of the product's sale is 0.
C29_StockRejectionMeansNoStock ==
    (Quiet /\ faults = 0) =>
        \A c \in CallIds :
            RejectedForStock(c) =>
                \A s \in Sales :
                    saleProduct[s] = calls[c].product => saleStock[s] = 0

\* C30: a code is bound to the email only.  A verifyPurchase call that no
\* store failure has hit is refused only for a malformed body, when no
\* unexpired document of the email holds the code, when the product has
\* no active sale with stock, or when the email already has a purchase of
\* the sale; the product the code was requested for plays no part.
C30_CodeBoundToEmailOnly ==
    [][\A c \in CallIds :
          (/\ calls'[c].op = "verify"
           /\ calls[c].pc # "done" /\ calls'[c].pc = "done"
           /\ calls'[c].result # "Success"
           /\ faults' = 0) =>
              LET r == calls'[c]
              IN \/ ~emailRegex(r.email) \/ ~isValidObjectId(r.product)
                 \/ ~otpFormat(r.otp)
                 \/ ~\E d \in otps : /\ d.email = toLowerCase(r.email)
                                     /\ d.code = r.otp
                                     /\ d.expiresAt >= now
                 \/ activeFlashSales(r.product) = {}
                 \/ \E s \in activeFlashSales(r.product) :
                        existingPurchase(toLowerCase(r.email), s)]_vars

\* a code requested for one product was accepted for a purchase of the
\* other product
C30_Witness ==
    \E c \in VerifyCalls, d \in RequestCalls :
        /\ Succeeded(c)
        /\ calls[d].pc = "done" /\ calls[d].result = "Success"
        /\ calls[d].otpId = calls[c].otpId
        /\ calls[d].product # calls[c].product
====
